---------------------------- MODULE Spec2Model ----------------------------
(***************************************************************************)
(* A model of the redis-protocol codec: the Frame data model, the encoder  *)
(* (encode.rs), the decoder (decode.rs, types.rs) and the utilities        *)
(* (utils.rs).                                                             *)
(*                                                                         *)
(* Bytes are the integers 0..255; a buffer, a String and a Bytes value are *)
(* sequences of bytes (a String is its UTF-8 encoding).  The Rust code     *)
(* indexes from 0: a cursor position pos names the byte buf[pos + 1].      *)
(*                                                                         *)
(* TLC's integers are 32 bits wide, so an i64 is kept as a sign and three  *)
(* base-10^8 limbs, [neg, h, m, l], of magnitude h*10^16 + m*10^8 + l.     *)
(***************************************************************************)
EXTENDS Integers, Sequences, FiniteSets, TLC

VARIABLES
  pc,      \* the step the caller is at
  frame,   \* the Frame handed to encode
  buf,     \* the byte buffer (BytesMut) that encode appends to and decode reads
  base,    \* the content of buf before encode was called
  enc,     \* what the last encode call returned
  dec,     \* what the last decode call returned, and the bytes it was given
  prev,    \* the decode result before the last one
  arg,     \* the input of the last utility call (a key, or a frame and a string)
  out      \* the output of the last utility call

vars == <<pc, frame, buf, base, enc, dec, prev, arg, out>>

---------------------------------------------------------------------------
(* Bytes and byte strings                                                  *)

SIMPLESTRING_BYTE == 43   \* '+'
ERROR_BYTE        == 45   \* '-'
INTEGER_BYTE      == 58   \* ':'
BULKSTRING_BYTE   == 36   \* '$'
ARRAY_BYTE        == 42   \* '*'

CRLF      == <<13, 10>>                       \* "\r\n"
NULL      == <<36, 45, 49, 13, 10>>           \* "$-1\r\n"
STR_MOVED == <<77, 79, 86, 69, 68>>           \* "MOVED"
STR_ASK   == <<65, 83, 75>>                   \* "ASK"
STR_NIL   == <<40, 110, 105, 108, 41>>        \* "(nil)"
STR_ERR   == <<101, 114, 114, 111, 114, 58, 32>>   \* "error: "

\* s[from .. to) with 0-based offsets, as a Rust slice; the caller checks the range.
Slice(s, from, to) == SubSeq(s, from + 1, to)

IsDigit(b) == b >= 48 /\ b <= 57

\* The minimal decimal digits of a natural number below 2^31.
RECURSIVE FmtNat(_)
FmtNat(n) == IF n < 10 THEN <<48 + n>> ELSE Append(FmtNat(n \div 10), 48 + (n % 10))

RECURSIVE ZeroPad(_, _)
ZeroPad(s, w) == IF Len(s) >= w THEN s ELSE ZeroPad(<<48>> \o s, w)

---------------------------------------------------------------------------
(* i64                                                                     *)

LIMB == 10000 * 10000

I64(neg, h, m, l) == [neg |-> neg, h |-> h, m |-> m, l |-> l]

I64_MAX == I64(FALSE, 922, 33720368, 54775807)
I64_MIN == I64(TRUE, 922, 33720368, 54775808)

\* `n as i64` for a usize that fits 31 bits.
FromNat(n) == I64(FALSE, 0, n \div LIMB, n % LIMB)

\* Magnitude a <= magnitude b.
MagLe(a, b) ==
  \/ a.h < b.h
  \/ a.h = b.h /\ a.m < b.m
  \/ a.h = b.h /\ a.m = b.m /\ a.l <= b.l

IsSmall(v) == v.h = 0 /\ v.m = 0

\* impl Display for i64: '-' for a negative value, then the decimal digits of
\* the magnitude, most significant first, with no leading zeros.
FmtI64(v) ==
  (IF v.neg THEN <<45>> ELSE <<>>) \o
  (IF v.h > 0 THEN FmtNat(v.h) \o ZeroPad(FmtNat(v.m), 8) \o ZeroPad(FmtNat(v.l), 8)
   ELSE IF v.m > 0 THEN FmtNat(v.m) \o ZeroPad(FmtNat(v.l), 8)
   ELSE FmtNat(v.l))

\* number.checked_mul(10).checked_add(digit) (checked_sub for a negative
\* number): [ok, v], ok = FALSE on i64 overflow.
CheckedMulAdd(v, d) ==
  LET Checked(r, h1) ==
        IF h1 <= 922 /\ MagLe(r, IF v.neg THEN I64_MIN ELSE I64_MAX)
        THEN [ok |-> TRUE, v |-> r] ELSE [ok |-> FALSE, v |-> v]
      High(l1, m1, h1) ==
        Checked(I64(v.neg /\ (h1 > 0 \/ (m1 % LIMB) > 0 \/ (l1 % LIMB) > 0),
                    h1, m1 % LIMB, l1 % LIMB), h1)
      Mid(l1, m1) == High(l1, m1, v.h * 10 + (m1 \div LIMB))
      Low(l1) == Mid(l1, v.m * 10 + (l1 \div LIMB))
  IN  Low(v.l * 10 + d)

\* atoi's FromRadix10SignedChecked::from_radix_10_signed_checked, from index
\* on: [ok, v, used]; it stops at the first byte that is no digit.
RECURSIVE Radix10(_, _, _, _, _)
Radix10(text, index, neg, acc, ok) ==
  LET Digit(r) == Radix10(text, index + 1, neg, r.v, ok /\ r.ok)
  IN  IF index = Len(text) \/ ~IsDigit(text[index + 1])
      THEN [ok |-> ok, v |-> acc, used |-> index]
      ELSE Digit(CheckedMulAdd([acc EXCEPT !.neg = neg], text[index + 1] - 48))

\* atoi::<i64>(text): an optional sign, then digits; bytes after the digits
\* are ignored.  None when no byte was used or the value overflows.
atoi(text) ==
  LET Parsed(r) ==
        IF r.used = 0 \/ ~r.ok THEN [some |-> FALSE, v |-> FromNat(0)]
        ELSE [some |-> TRUE, v |-> r.v]
      signed == Len(text) > 0 /\ text[1] \in {43, 45}
      neg    == Len(text) > 0 /\ text[1] = 45
  IN  Parsed(Radix10(text, IF signed THEN 1 ELSE 0, neg, FromNat(0), TRUE))

\* str::parse::<u16>(): an optional '+', then one or more digits, at most 65535.
RECURSIVE U16Digits(_, _, _)
U16Digits(s, i, acc) ==
  IF i > Len(s) THEN [ok |-> TRUE, v |-> acc]
  ELSE IF ~IsDigit(s[i]) \/ acc * 10 + (s[i] - 48) > 65535 THEN [ok |-> FALSE, v |-> 0]
  ELSE U16Digits(s, i + 1, acc * 10 + (s[i] - 48))

ParseU16(s) ==
  LET d == IF Len(s) > 0 /\ s[1] = 43 THEN Tail(s) ELSE s
  IN  IF Len(d) = 0 THEN [ok |-> FALSE, v |-> 0] ELSE U16Digits(d, 1, 0)

---------------------------------------------------------------------------
(* UTF-8                                                                   *)

IsCont(b) == b >= 128 /\ b <= 191

\* The length of the well-formed UTF-8 sequence that starts at s[i], 0 if none.
Utf8SeqLen(s, i) ==
  LET b  == s[i]
      n  == Len(s) - i + 1
      c1 == IF n >= 2 THEN s[i + 1] ELSE 0
      c2 == IF n >= 3 THEN s[i + 2] ELSE 0
      c3 == IF n >= 4 THEN s[i + 3] ELSE 0
  IN  IF b < 128 THEN 1
      ELSE IF b >= 194 /\ b <= 223 THEN (IF IsCont(c1) THEN 2 ELSE 0)
      ELSE IF b = 224 THEN (IF c1 >= 160 /\ c1 <= 191 /\ IsCont(c2) THEN 3 ELSE 0)
      ELSE IF b = 237 THEN (IF c1 >= 128 /\ c1 <= 159 /\ IsCont(c2) THEN 3 ELSE 0)
      ELSE IF b >= 225 /\ b <= 239 THEN (IF IsCont(c1) /\ IsCont(c2) THEN 3 ELSE 0)
      ELSE IF b = 240 THEN (IF c1 >= 144 /\ c1 <= 191 /\ IsCont(c2) /\ IsCont(c3) THEN 4 ELSE 0)
      ELSE IF b >= 241 /\ b <= 243 THEN (IF IsCont(c1) /\ IsCont(c2) /\ IsCont(c3) THEN 4 ELSE 0)
      ELSE IF b = 244 THEN (IF c1 >= 128 /\ c1 <= 143 /\ IsCont(c2) /\ IsCont(c3) THEN 4 ELSE 0)
      ELSE 0

\* String::from_utf8 / str::from_utf8 succeeds.
RECURSIVE Utf8From(_, _)
Utf8From(s, i) ==
  IF i > Len(s) THEN TRUE
  ELSE LET n == Utf8SeqLen(s, i) IN n > 0 /\ Utf8From(s, i + n)

Utf8Valid(s) == Utf8From(s, 1)

\* The 0-based byte offsets at which the chars of a valid string start, in order.
RECURSIVE CharStarts(_, _)
CharStarts(s, i) ==
  IF i > Len(s) THEN <<>> ELSE <<i - 1>> \o CharStarts(s, i + Utf8SeqLen(s, i))

\* str::is_char_boundary
IsCharBoundary(s, k) ==
  k = 0 \/ k = Len(s) \/ (k > 0 /\ k < Len(s) /\ ~IsCont(s[k + 1]))

\* str::split(sep) for a one-byte separator: the pieces, in order.
RECURSIVE SplitFrom(_, _, _, _)
SplitFrom(s, sep, i, cur) ==
  IF i > Len(s) THEN <<cur>>
  ELSE IF s[i] = sep THEN <<cur>> \o SplitFrom(s, sep, i + 1, <<>>)
  ELSE SplitFrom(s, sep, i + 1, Append(cur, s[i]))

Split(s, sep) == SplitFrom(s, sep, 1, <<>>)
---------------------------------------------------------------------------
(* Frame (types.rs)                                                        *)

SimpleString(s) == [type |-> "SimpleString", str |-> s]
Error(s)        == [type |-> "Error", str |-> s]
Integer(v)      == [type |-> "Integer", num |-> v]
BulkString(b)   == [type |-> "BulkString", data |-> b]
Array(items)    == [type |-> "Array", items |-> items]
Null            == [type |-> "Null"]
Moved(slot, host, port) == [type |-> "Moved", slot |-> slot, host |-> host, port |-> port]
Ask(slot, host, port)   == [type |-> "Ask", slot |-> slot, host |-> host, port |-> port]

\* utils::redirection_to_frame: format!("{} {} {}:{}", prefix, slot, host, port)
redirection_to_frame(prefix, slot, host, port) ==
  prefix \o <<32>> \o FmtNat(slot) \o <<32>> \o host \o <<58>> \o FmtNat(port)

\* impl From<Redirection> for Frame.  The variant carries the redirection; its
\* text is redirection_to_frame of the same three fields.
FrameFromRedirection(r) ==
  IF r.moved THEN Moved(r.slot, r.host, r.port) ELSE Ask(r.slot, r.host, r.port)

RedirectionText(f) ==
  redirection_to_frame(IF f.type = "Moved" THEN STR_MOVED ELSE STR_ASK,
                       f.slot, f.host, f.port)

\* utils::string_to_redirection: [ok, moved, slot, host, port]
NotRedirection == [ok |-> FALSE, moved |-> FALSE, slot |-> 0, host |-> <<>>, port |-> 0]

string_to_redirection(s) ==
  LET Address(is_moved, slot, address_parts, port) ==
        IF ~slot.ok THEN NotRedirection
        ELSE IF Len(address_parts) # 2 THEN NotRedirection
        ELSE IF ~port.ok THEN NotRedirection
        ELSE [ok |-> TRUE, moved |-> is_moved, slot |-> slot.v,
              host |-> address_parts[1], port |-> port.v]
      Port(is_moved, slot, address_parts) ==
        Address(is_moved, slot, address_parts,
                IF Len(address_parts) = 2 THEN ParseU16(address_parts[2])
                ELSE [ok |-> FALSE, v |-> 0])
      Parts(parts) ==
        IF Len(parts) # 3 THEN NotRedirection
        ELSE IF parts[1] # STR_MOVED /\ parts[1] # STR_ASK THEN NotRedirection
        ELSE Port(parts[1] = STR_MOVED, ParseU16(parts[2]), Split(parts[3], 58))
  IN  Parts(Split(s, 32))

---------------------------------------------------------------------------
(* Encoder (encode.rs).  A write returns [ok, stream]: the stream as the    *)
(* call leaves it, and whether it returned Ok.                              *)

DecimalBufLen == 12

\* write_decimal: the value is formatted into a 12-byte array through a
\* Cursor; write! fails (WriteZero) when the text does not fit, and `?`
\* returns before anything is put on the stream.
write_decimal(stream, val) ==
  LET Put(text) ==
        IF Len(text) > DecimalBufLen THEN [ok |-> FALSE, stream |-> stream]
        ELSE [ok |-> TRUE, stream |-> stream \o text \o CRLF]
  IN  Put(FmtI64(val))

\* The text write_value formats for a Moved frame.
MovedText(f) ==
  STR_MOVED \o <<32>> \o FmtNat(f.slot) \o <<32>> \o f.host \o <<58>> \o FmtNat(f.port)

\* The text write_value formats for an Ask frame.
AskText(f) ==
  STR_MOVED \o <<32>> \o FmtNat(f.slot) \o <<32>> \o f.host \o <<58>> \o FmtNat(f.port)

RECURSIVE write_value(_, _)
\* for v in val { write_value(stream, v)?; } from child i on
RECURSIVE write_items(_, _, _)
write_items(stream, items, i) ==
  LET Rest(r) == IF r.ok THEN write_items(r.stream, items, i + 1) ELSE r
  IN  IF i > Len(items) THEN [ok |-> TRUE, stream |-> stream]
      ELSE Rest(write_value(stream, items[i]))

\* The Array arm, of write_frame and of write_value alike: '*', the count,
\* then every entry.
write_array(stream, items) ==
  LET Entries(r) == IF r.ok THEN write_items(r.stream, items, 1) ELSE r
  IN  Entries(write_decimal(Append(stream, ARRAY_BYTE), FromNat(Len(items))))

\* The BulkString arm: '$', the length, the bytes, the terminator.
write_bulk(stream, data) ==
  LET Data(r) == IF r.ok THEN [ok |-> TRUE, stream |-> r.stream \o data \o CRLF] ELSE r
  IN  Data(write_decimal(Append(stream, BULKSTRING_BYTE), FromNat(Len(data))))

write_value(stream, f) ==
  CASE f.type = "SimpleString" ->
         [ok |-> TRUE, stream |-> Append(stream, SIMPLESTRING_BYTE) \o f.str \o CRLF]
    [] f.type = "Error" ->
         [ok |-> TRUE, stream |-> Append(stream, ERROR_BYTE) \o f.str \o CRLF]
    [] f.type = "Integer" ->
         write_decimal(Append(stream, INTEGER_BYTE), f.num)
    [] f.type = "Null" ->
         [ok |-> TRUE, stream |-> stream \o NULL]
    [] f.type = "BulkString" ->
         write_bulk(stream, f.data)
    [] f.type = "Array" ->
         write_array(stream, f.items)
    [] f.type = "Moved" ->
         [ok |-> TRUE, stream |-> Append(stream, ERROR_BYTE) \o MovedText(f) \o CRLF]
    [] f.type = "Ask" ->
         [ok |-> TRUE, stream |-> Append(stream, ERROR_BYTE) \o AskText(f) \o CRLF]

write_frame(stream, f) ==
  IF f.type = "Array" THEN write_array(stream, f.items) ELSE write_value(stream, f)

\* encode: [ok, len, buf]: Ok(buf.len()) or Err, and the buffer as it is left.
encode(b, f) ==
  LET Result(r) ==
        [ok |-> r.ok, len |-> IF r.ok THEN Len(r.stream) ELSE 0, buf |-> r.stream]
  IN  Result(write_frame(b, f))

---------------------------------------------------------------------------
(* Decoder (types.rs, decode.rs).  A cursor is the buffer and a 0-based     *)
(* position.  A parse returns [kind, frame, pos]: kind is "Ok", or the     *)
(* Error variant "Incomplete" or "Other", or "Panic" when the call panics; *)
(* pos is the cursor position the call leaves.                             *)

Ok(f, pos)      == [kind |-> "Ok", frame |-> f, pos |-> pos]
Incomplete(pos) == [kind |-> "Incomplete", frame |-> Null, pos |-> pos]
Other(pos)      == [kind |-> "Other", frame |-> Null, pos |-> pos]
Panic(pos)      == [kind |-> "Panic", frame |-> Null, pos |-> pos]

\* An Err of get_line or get_decimal, returned by `?`.
Failed(r) == [kind |-> r.kind, frame |-> Null, pos |-> r.pos]

remaining(b, pos) == IF pos < Len(b) THEN Len(b) - pos ELSE 0

\* get_line's scan: the least i in from .. end - 1 with b[i] = '\r' and
\* b[i + 1] = '\n', or -1.
RECURSIVE ScanCrlf(_, _, _)
ScanCrlf(b, i, end) ==
  IF i >= end THEN -1
  ELSE IF b[i + 1] = 13 /\ b[i + 2] = 10 THEN i
  ELSE ScanCrlf(b, i + 1, end)

\* get_line: [kind, line, pos].  `len() - 1` on an empty buffer underflows:
\* a panic in a debug build, and an out-of-bounds index in a release build.
get_line(b, pos) ==
  LET Found(i) ==
        IF i >= 0 THEN [kind |-> "Ok", line |-> Slice(b, pos, i), pos |-> i + 2]
        ELSE [kind |-> "Incomplete", line |-> <<>>, pos |-> pos]
  IN  IF Len(b) = 0 THEN [kind |-> "Panic", line |-> <<>>, pos |-> pos]
      ELSE Found(ScanCrlf(b, pos, Len(b) - 1))

\* get_decimal: [kind, v, pos]
get_decimal(b, pos) ==
  LET Number(l, n) ==
        IF n.some THEN [kind |-> "Ok", v |-> n.v, pos |-> l.pos]
        ELSE [kind |-> "Other", v |-> FromNat(0), pos |-> l.pos]
      Line(l) ==
        IF l.kind # "Ok" THEN [kind |-> l.kind, v |-> FromNat(0), pos |-> l.pos]
        ELSE Number(l, atoi(l.line))
  IN  Line(get_line(b, pos))

\* i64 -> usize try_into() succeeds (a 64-bit usize).
FitsUsize(v) == ~v.neg

\* The `for _ in 0..len` loop has run i times and is over.
LoopDone(i, len) == IsSmall(len) /\ i >= len.l

\* parse's '+' arm
parse_simple(b, pos) ==
  LET Line(l) ==
        IF l.kind # "Ok" THEN Failed(l)
        ELSE IF ~Utf8Valid(l.line) THEN Other(l.pos)
        ELSE Ok(SimpleString(l.line), l.pos)
  IN  Line(get_line(b, pos))

\* parse's '-' arm
parse_error(b, pos) ==
  LET Redirected(l, r) ==
        IF r.ok THEN Ok(FrameFromRedirection(r), l.pos) ELSE Ok(Error(l.line), l.pos)
      Line(l) ==
        IF l.kind # "Ok" THEN Failed(l)
        ELSE IF ~Utf8Valid(l.line) THEN Other(l.pos)
        ELSE Redirected(l, string_to_redirection(l.line))
  IN  Line(get_line(b, pos))

\* parse's ':' arm
parse_integer(b, pos) ==
  LET Number(d) == IF d.kind # "Ok" THEN Failed(d) ELSE Ok(Integer(d.v), d.pos)
  IN  Number(get_decimal(b, pos))

\* parse's '$' arm, when the byte peeked is '-'
parse_null(b, pos) ==
  LET Line(l) ==
        IF l.kind # "Ok" THEN Failed(l)
        ELSE IF l.line # <<45, 49>> THEN Other(l.pos)
        ELSE Ok(Null, l.pos)
  IN  Line(get_line(b, pos))

\* A '$' arm that waits for the payload only, not for its terminator: the
\* variant C2 is checked against.
parse_bulk_payload_only(b, pos) ==
  LET Length(d) ==
        IF d.kind # "Ok" THEN Failed(d)
        ELSE IF ~FitsUsize(d.v) THEN Other(d.pos)
        ELSE IF ~IsSmall(d.v) \/ remaining(b, d.pos) < d.v.l THEN Incomplete(d.pos)
        ELSE Ok(BulkString(Slice(b, d.pos, d.pos + d.v.l)), d.pos + d.v.l + 2)
  IN  IF remaining(b, pos) = 0 THEN Incomplete(pos)
      ELSE IF b[pos + 1] = 45 THEN parse_null(b, pos)
      ELSE Length(get_decimal(b, pos))

\* parse's '$' arm.  skip(src, n) advances by n and looks at no byte.
parse_bulk(b, pos) ==
  LET Length(d) ==
        IF d.kind # "Ok" THEN Failed(d)
        ELSE IF ~FitsUsize(d.v) THEN Other(d.pos)
        ELSE IF ~IsSmall(d.v) \/ remaining(b, d.pos) < d.v.l + 2 THEN Incomplete(d.pos)
        ELSE Ok(BulkString(Slice(b, d.pos, d.pos + d.v.l)), d.pos + d.v.l + 2)
  IN  IF remaining(b, pos) = 0 THEN Incomplete(pos)
      ELSE IF b[pos + 1] = 45 THEN parse_null(b, pos)
      ELSE Length(get_decimal(b, pos))

RECURSIVE parse(_, _)
\* parse's '*' arm: the loop, with items the children pushed so far.
RECURSIVE parse_items(_, _, _, _)
parse_items(b, pos, len, items) ==
  LET Child(r) ==
        IF r.kind # "Ok" THEN r
        ELSE parse_items(b, r.pos, len, Append(items, r.frame))
  IN  IF LoopDone(Len(items), len) THEN Ok(Array(items), pos)
      ELSE Child(parse(b, pos))

\* The '*' arm.  Vec::with_capacity(len) is taken to succeed: the counts of the
\* inputs here are small.
parse_array(b, pos) ==
  LET Count(d) ==
        IF d.kind # "Ok" THEN Failed(d)
        ELSE IF ~FitsUsize(d.v) THEN Other(d.pos)
        ELSE parse_items(b, d.pos, d.v, <<>>)
  IN  Count(get_decimal(b, pos))

\* Frame::parse.  Any other tag byte reaches unimplemented!().
parse(b, pos) ==
  IF remaining(b, pos) = 0 THEN Incomplete(pos)
  ELSE LET tag == b[pos + 1]
       IN  CASE tag = SIMPLESTRING_BYTE -> parse_simple(b, pos + 1)
             [] tag = ERROR_BYTE        -> parse_error(b, pos + 1)
             [] tag = INTEGER_BYTE      -> parse_integer(b, pos + 1)
             [] tag = BULKSTRING_BYTE   -> parse_bulk(b, pos + 1)
             [] tag = ARRAY_BYTE        -> parse_array(b, pos + 1)
             [] OTHER                   -> Panic(pos + 1)

\* skip(src, n): [kind, pos]
skip(b, pos, n) ==
  IF remaining(b, pos) < n THEN [kind |-> "Incomplete", pos |-> pos]
  ELSE [kind |-> "Ok", pos |-> pos + n]

\* The result of a step of check: its kind, and where it leaves the cursor.
Checked(r) == [kind |-> r.kind, pos |-> r.pos]

\* Frame::check's '$' arm
check_bulk(b, pos) ==
  LET Length(d) ==
        IF d.kind # "Ok" THEN Checked(d)
        ELSE IF ~FitsUsize(d.v) THEN [kind |-> "Other", pos |-> d.pos]
        ELSE IF ~IsSmall(d.v) THEN [kind |-> "Incomplete", pos |-> d.pos]
        ELSE skip(b, d.pos, d.v.l + 2)
  IN  IF remaining(b, pos) = 0 THEN [kind |-> "Incomplete", pos |-> pos]
      ELSE IF b[pos + 1] = 45 THEN skip(b, pos, 4)
      ELSE Length(get_decimal(b, pos))

RECURSIVE check(_, _)
\* Frame::check's '*' arm: the loop `for _ in 0..len`, i frames checked so
\* far; a negative len is an empty range.
RECURSIVE check_items(_, _, _, _)
check_items(b, pos, len, i) ==
  LET Child(r) == IF r.kind # "Ok" THEN r ELSE check_items(b, r.pos, len, i + 1)
  IN  IF len.neg \/ LoopDone(i, len) THEN [kind |-> "Ok", pos |-> pos]
      ELSE Child(check(b, pos))

check_array(b, pos) ==
  LET Count(d) == IF d.kind # "Ok" THEN Checked(d) ELSE check_items(b, d.pos, d.v, 0)
  IN  Count(get_decimal(b, pos))

\* Frame::check, on the cursor (b, pos): [kind, pos], the result and the
\* position the cursor is left at.
check(b, pos) ==
  IF remaining(b, pos) = 0 THEN [kind |-> "Incomplete", pos |-> pos]
  ELSE LET tag == b[pos + 1]
       IN  CASE tag = SIMPLESTRING_BYTE -> Checked(get_line(b, pos + 1))
             [] tag = ERROR_BYTE        -> Checked(get_line(b, pos + 1))
             [] tag = INTEGER_BYTE      -> Checked(get_decimal(b, pos + 1))
             [] tag = BULKSTRING_BYTE   -> check_bulk(b, pos + 1)
             [] tag = ARRAY_BYTE        -> check_array(b, pos + 1)
             [] OTHER                   -> [kind |-> "Other", pos |-> pos + 1]

\* A decode that reports the whole buffer as consumed: the variant C3 is
\* checked against.
decode_to_end(b) ==
  LET Result(r) ==
        CASE r.kind = "Ok"         -> [kind |-> "Some", frame |-> r.frame, n |-> Len(b)]
          [] r.kind = "Incomplete" -> [kind |-> "None", frame |-> Null, n |-> 0]
          [] r.kind = "Other"      -> [kind |-> "Err", frame |-> Null, n |-> 0]
          [] r.kind = "Panic"      -> [kind |-> "Panic", frame |-> Null, n |-> 0]
  IN  Result(parse(b, 0))

\* decode: [kind, frame, n]: "Some" is Ok((Some(frame), n)), "None" is
\* Ok((None, 0)), "Err" is Err(Error::Other(_)), "Panic" is a panic.
decode(b) ==
  LET Result(start, r) ==
        CASE r.kind = "Ok"         -> [kind |-> "Some", frame |-> r.frame, n |-> r.pos - start]
          [] r.kind = "Incomplete" -> [kind |-> "None", frame |-> Null, n |-> 0]
          [] r.kind = "Other"      -> [kind |-> "Err", frame |-> Null, n |-> 0]
          [] r.kind = "Panic"      -> [kind |-> "Panic", frame |-> Null, n |-> 0]
  IN  Result(0, parse(b, 0))

---------------------------------------------------------------------------
(* Utilities (utils.rs)                                                    *)

REDIS_CLUSTER_SLOTS == 16384

\* Bit k of a xor b, in place.
XorBit(a, b, k) == (((a \div (2 ^ k)) + (b \div (2 ^ k))) % 2) * (2 ^ k)

\* Bitwise exclusive or of two naturals below 2^16.
Xor(a, b) ==
  XorBit(a, b, 0) + XorBit(a, b, 1) + XorBit(a, b, 2) + XorBit(a, b, 3) +
  XorBit(a, b, 4) + XorBit(a, b, 5) + XorBit(a, b, 6) + XorBit(a, b, 7) +
  XorBit(a, b, 8) + XorBit(a, b, 9) + XorBit(a, b, 10) + XorBit(a, b, 11) +
  XorBit(a, b, 12) + XorBit(a, b, 13) + XorBit(a, b, 14) + XorBit(a, b, 15)

\* One shift of the CRC register: polynomial 0x1021, most significant bit first.
CrcShift1(crc) ==
  IF crc >= 32768 THEN Xor((crc * 2) % 65536, 4129) ELSE crc * 2

\* The register after one input byte.
CrcByte(crc, b) ==
  LET c0 == Xor(crc, b * 256)
  IN  CrcShift1(CrcShift1(CrcShift1(CrcShift1(
        CrcShift1(CrcShift1(CrcShift1(CrcShift1(c0))))))))

\* crc16::State::<XMODEM>::calculate: initial value 0, no reflection, no final xor.
RECURSIVE Crc16From(_, _, _)
Crc16From(bytes, i, crc) ==
  IF i > Len(bytes) THEN crc
  ELSE LET next == CrcByte(crc, bytes[i])
       IN  IF next < 65536 THEN Crc16From(bytes, i + 1, next) ELSE next % 65536

crc16_xmodem(key) == Crc16From(key, 1, 0) % REDIS_CLUSTER_SLOTS

\* The index among the chars of s of the first char equal to byte c, or -1:
\* for (idx, ch) in s.chars().enumerate() { if ch == c { .. break } }
RECURSIVE FirstChar(_, _, _, _)
FirstChar(s, starts, idx, c) ==
  IF idx >= Len(starts) THEN -1
  ELSE IF s[starts[idx + 1] + 1] = c THEN idx
  ELSE FirstChar(s, starts, idx + 1, c)

CharIndex(s, c) == FirstChar(s, CharStarts(s, 1), 0, c)

\* redis_keyslot: [kind, slot]; kind is "Panic" when a str slice is cut off a
\* char boundary.  i and j are char indices, used as byte offsets.
redis_keyslot(key) ==
  LET whole == [kind |-> "Ok", slot |-> crc16_xmodem(key)]
      panic == [kind |-> "Panic", slot |-> 0]
      i == CharIndex(key, 123)
  IN  IF i = -1 \/ i = Len(key) - 1 THEN whole
      ELSE IF ~IsCharBoundary(key, i + 1) THEN panic
      ELSE LET j == CharIndex(Slice(key, i + 1, Len(key)), 125)
           IN  IF j = -1 THEN whole
               ELSE IF i + j = Len(key) \/ j = 0 THEN whole
               ELSE IF ~IsCharBoundary(key, i + j + 1) THEN panic
               ELSE [kind |-> "Ok", slot |-> crc16_xmodem(Slice(key, i + 1, i + j + 1))]

---------------------------------------------------------------------------
(* Frame's PartialEq<&str> and Display (types.rs)                          *)

\* impl PartialEq<&str> for Frame
eq_str(f, other) ==
  CASE f.type = "SimpleString" -> f.str = other
    [] f.type = "BulkString"   -> f.data = other
    [] OTHER                   -> FALSE

HexDigit(n) == IF n < 10 THEN 48 + n ELSE 87 + n

\* One byte of the Debug rendering of Bytes.
DebugByte(b) ==
  CASE b = 10 -> <<92, 110>>
    [] b = 13 -> <<92, 114>>
    [] b = 9  -> <<92, 116>>
    [] b = 92 \/ b = 34 -> <<92, b>>
    [] b = 0  -> <<92, 48>>
    [] OTHER  -> IF b >= 32 /\ b < 127 THEN <<b>>
                 ELSE <<92, 120, HexDigit(b \div 16), HexDigit(b % 16)>>

\* impl Debug for Bytes: b"..." with the bytes escaped
RECURSIVE DebugFrom(_, _)
DebugFrom(b, i) == IF i > Len(b) THEN <<>> ELSE DebugByte(b[i]) \o DebugFrom(b, i + 1)

BytesDebug(b) == <<98, 34>> \o DebugFrom(b, 1) \o <<34>>

RECURSIVE fmt(_)
\* The Array arm's loop over parts.iter().enumerate(), from index i on.
RECURSIVE fmt_parts(_, _)
fmt_parts(parts, i) ==
  IF i >= Len(parts) THEN <<>>
  ELSE (IF i > 0 THEN <<32>> \o fmt(parts[i + 1]) ELSE <<>>) \o fmt_parts(parts, i + 1)

\* impl fmt::Display for Frame: the text written.
fmt(f) ==
  CASE f.type = "SimpleString" -> f.str
    [] f.type = "Error"        -> STR_ERR \o f.str
    [] f.type = "Integer"      -> FmtI64(f.num)
    [] f.type = "BulkString"   -> IF Utf8Valid(f.data) THEN f.data ELSE BytesDebug(f.data)
    [] f.type = "Null"         -> STR_NIL
    [] f.type = "Array"        -> fmt_parts(f.items, 0)
    [] f.type = "Moved"        -> RedirectionText(f)
    [] f.type = "Ask"          -> RedirectionText(f)
---------------------------------------------------------------------------
(* Inputs                                                                  *)

MaxArrayLen == 2   \* children per generated array
MaxRaw      == 3   \* free bytes at the end of a generated raw buffer
MaxKeyChars == 4   \* chars per generated key
MaxStream   == 2   \* frames per generated stream

\* All sequences over S of length at most n.
RECURSIVE SeqsUpTo(_, _)
SeqsUpTo(S, n) ==
  IF n = 0 THEN {<<>>}
  ELSE LET shorter == SeqsUpTo(S, n - 1)
       IN  shorter \cup {Append(s, x) : s \in shorter, x \in S}

\* The concatenation of a sequence of byte strings.
RECURSIVE Concat(_)
Concat(ss) == IF Len(ss) = 0 THEN <<>> ELSE Head(ss) \o Concat(Tail(ss))

B_foo       == <<102, 111, 111>>                          \* "foo"
B_OK        == <<79, 75>>                                 \* "OK"
B_eacute    == <<195, 169>>                               \* U+00E9, two bytes
B_multiline == <<97, 13, 10, 98>>                         \* "a\r\nb"
B_localhost == <<49, 50, 55, 46, 48, 46, 48, 46, 49>>     \* "127.0.0.1"
B_ERR       == <<69, 82, 82, 32, 120>>                    \* "ERR x"
B_MOVEDLINE == <<77, 79, 86, 69, 68, 32, 49, 32, 104, 58, 50>>   \* "MOVED 1 h:2"
B_foobar    == <<102, 111, 111, 98, 97, 114>>             \* encode.rs PADDING
B_FOOBARBAZ == <<70, 79, 79, 66, 65, 82, 66, 65, 90>>     \* decode.rs PADDING

Int64Values ==
  { FromNat(0), FromNat(1), FromNat(1000), FromNat(48293),
    I64(TRUE, 0, 0, 1), I64(TRUE, 0, 0, 1000),
    I64(FALSE, 0, 999, 99999999),     \* 99999999999: 11 characters
    I64(FALSE, 0, 9999, 99999999),    \* 999999999999: 12 characters
    I64(FALSE, 0, 10000, 0),          \* 1000000000000: 13 characters
    I64(TRUE, 0, 999, 99999999),      \* -99999999999: 12 characters
    I64(TRUE, 0, 1000, 0),            \* -100000000000: 13 characters
    I64_MAX, I64_MIN }

LeafFrames ==
  {SimpleString(s) : s \in {<<>>, B_OK, B_eacute, B_multiline}}
  \cup {Error(s) : s \in {<<>>, B_ERR, B_multiline, B_MOVEDLINE}}
  \cup {Integer(v) : v \in Int64Values}
  \cup {BulkString(b) : b \in {<<>>, B_foo, B_multiline, <<255>>}}
  \cup {Null}
  \cup {Moved(3999, B_localhost, 6381), Ask(3999, B_localhost, 6381),
        Moved(0, <<104>>, 1), Ask(16383, <<104>>, 65535)}

ArrayElems == {Integer(FromNat(1)), SimpleString(B_OK), BulkString(B_foo), Null}

FlatArrays == {Array(items) : items \in SeqsUpTo(ArrayElems, MaxArrayLen)}

NestedElems ==
  {Integer(FromNat(2)), Array(<<>>), Array(<<BulkString(B_foo), Null>>),
   Array(<<Array(<<Error(B_ERR)>>)>>)}

NestedArrays == {Array(items) : items \in SeqsUpTo(NestedElems, MaxArrayLen)}

\* Arrays with a child the encoder treats specially, and the nested array of
\* should_encode_array_nested_test.
ExampleArrays ==
  { Array(<<Integer(FromNat(1)), Integer(I64(FALSE, 0, 10000, 0)), Null>>),
    Array(<<Ask(3999, B_localhost, 6381)>>),
    Array(<<Array(<<Integer(FromNat(1)), Integer(FromNat(2)), Integer(FromNat(3))>>),
            Array(<<SimpleString(B_foo), Error(B_ERR)>>)>>) }

Frames == LeafFrames \cup FlatArrays \cup NestedArrays \cup ExampleArrays

Prefixes == {<<>>, B_foobar}

Pads == {B_FOOBARBAZ, CRLF, <<43, 13, 10>>, <<58>>}

RawAlphabet == {43, 45, 58, 36, 42, 13, 10, 49, 97}

\* Raw buffers: a fixed head, then MaxRaw free bytes.
RawHeads ==
  { <<>>,
    <<42, 49, 13, 10>>,                 \* "*1\r\n"
    <<36, 49, 13, 10>>,                 \* "$1\r\n"
    <<36, 45>>,                         \* "$-"
    <<58, 49>>,                         \* ":1"
    <<58, 43>>,                         \* ":+"
    <<45, 65, 83, 75, 32, 49, 32, 58, 50>>,    \* "-ASK 1 :2"
    <<45, 65, 83, 75, 32, 54, 53, 53, 51, 53, 32, 104, 58>> }   \* "-ASK 65535 h:"

RawBufs ==
  {h \o t : h \in RawHeads, t \in SeqsUpTo(RawAlphabet, MaxRaw)}
  \cup {encode(<<>>, f).buf : f \in LeafFrames \cup ExampleArrays}

KeyChars == {<<97>>, <<123>>, <<125>>, B_eacute}

Keys == {Concat(cs) : cs \in SeqsUpTo(KeyChars, MaxKeyChars)}

\* The frames a stream is made of: one of each kind that encode accepts.
StreamFrames ==
  { SimpleString(B_OK), Error(B_ERR), Integer(I64(TRUE, 0, 0, 1)), BulkString(B_foo),
    Null, Array(<<Integer(FromNat(1)), Null>>), Moved(0, <<104>>, 1), Ask(1, <<104>>, 2) }

Streams == SeqsUpTo(StreamFrames, MaxStream)

\* The buffer after encode has been called for each frame of fs, from i on.
RECURSIVE encode_all(_, _, _)
encode_all(b, fs, i) ==
  IF i > Len(fs) THEN b ELSE encode_all(encode(b, fs[i]).buf, fs, i + 1)

EqStrings == {<<>>, B_OK, B_foo, B_ERR}

UtilArgs ==
  {[op |-> "keyslot", key |-> k] : k \in Keys}
  \cup {[op |-> "fmt", frame |-> f] : f \in Frames}
  \cup {[op |-> "eq", frame |-> f, other |-> s] : f \in LeafFrames \cup FlatArrays, s \in EqStrings}

---------------------------------------------------------------------------
(* The caller: encode a frame into a buffer, decode a buffer, call a       *)
(* utility.                                                                *)

NoFrame == [type |-> "None"]
NoEnc   == [called |-> FALSE, ok |-> FALSE, len |-> 0, buf |-> <<>>]
NoDec   == [called |-> FALSE, input |-> <<>>,
            res |-> [kind |-> "None", frame |-> Null, n |-> 0]]
NoArg   == [op |-> "none"]
NoOut   == [op |-> "none"]

\* A frame and an output buffer with some content.
Init ==
  /\ pc = "start"
  /\ frame \in Frames
  /\ buf \in Prefixes
  /\ base = buf
  /\ enc = NoEnc /\ dec = NoDec /\ prev = NoDec
  /\ arg = NoArg /\ out = NoOut

\* Received bytes, of any content.
InitRaw ==
  /\ pc = "ready"
  /\ frame = NoFrame
  /\ buf \in RawBufs
  /\ base = <<>>
  /\ enc = NoEnc /\ dec = NoDec /\ prev = NoDec
  /\ arg = NoArg /\ out = NoOut

\* A utility call's input.
InitUtil ==
  /\ pc = "util"
  /\ frame = NoFrame /\ buf = <<>> /\ base = <<>>
  /\ enc = NoEnc /\ dec = NoDec /\ prev = NoDec
  /\ arg \in UtilArgs /\ out = NoOut

\* A cursor at the start of received bytes.
InitCheck ==
  /\ pc = "check"
  /\ frame = NoFrame /\ buf = <<>> /\ base = <<>>
  /\ enc = NoEnc /\ dec = NoDec /\ prev = NoDec
  /\ arg \in {[op |-> "check", buf |-> b, pos |-> 0] : b \in RawBufs}
  /\ out = [op |-> "check", results |-> <<>>, parsed |-> Incomplete(0)]

\* A sender has encoded a stream of frames; the reader's buffer is empty and
\* base is what the transport has still to deliver.
InitStream ==
  /\ pc = "stream"
  /\ frame \in Streams
  /\ buf = <<>>
  /\ base = encode_all(<<>>, frame, 1)
  /\ enc = NoEnc /\ dec = NoDec /\ prev = NoDec
  /\ arg = NoArg
  /\ out = [op |-> "stream", emitted |-> <<>>]

\* encode(&mut buf, &frame).  The buffer is handed on to a decoder when it
\* holds the frame alone.
Encode ==
  /\ pc = "start"
  /\ enc' = [called |-> TRUE] @@ encode(buf, frame)
  /\ buf' = enc'.buf
  /\ pc' = IF enc'.ok /\ base = <<>> THEN "ready" ELSE "done"
  /\ UNCHANGED <<frame, base, dec, prev, arg, out>>

\* The transport has delivered only the first k bytes of the encoding.
Truncate(k) ==
  /\ pc = "ready" /\ enc.called /\ ~dec.called /\ buf = enc.buf
  /\ k < Len(buf)
  /\ buf' = SubSeq(buf, 1, k)
  /\ UNCHANGED <<pc, frame, base, enc, dec, prev, arg, out>>

\* decode(&buf)
Decode ==
  /\ pc = "ready"
  /\ prev' = dec
  /\ dec' = [called |-> TRUE, input |-> buf, res |-> decode(buf)]
  /\ pc' = "decoded"
  /\ UNCHANGED <<frame, buf, base, enc, arg, out>>

\* bytes.extend_from_slice(p): more bytes arrive behind the ones decoded.
Extend(p) ==
  /\ pc = "decoded" /\ ~prev.called
  /\ buf' = buf \o p
  /\ pc' = "ready"
  /\ UNCHANGED <<frame, base, enc, dec, prev, arg, out>>

\* redis_keyslot(key)
Keyslot ==
  /\ pc = "util" /\ arg.op = "keyslot"
  /\ out' = [op |-> "keyslot"] @@ redis_keyslot(arg.key)
  /\ pc' = "done"
  /\ UNCHANGED <<frame, buf, base, enc, dec, prev, arg>>

\* format!("{}", frame)
Display ==
  /\ pc = "util" /\ arg.op = "fmt"
  /\ out' = [op |-> "fmt", text |-> fmt(arg.frame)]
  /\ pc' = "done"
  /\ UNCHANGED <<frame, buf, base, enc, dec, prev, arg>>

\* frame == other
EqStr ==
  /\ pc = "util" /\ arg.op = "eq"
  /\ out' = [op |-> "eq", eq |-> eq_str(arg.frame, arg.other)]
  /\ pc' = "done"
  /\ UNCHANGED <<frame, buf, base, enc, dec, prev, arg>>

\* Frame::check(&mut cursor): the cursor is arg, the results are kept in out.
Check ==
  /\ pc = "check" /\ Len(out.results) < 2
  /\ out' = [out EXCEPT !.results = Append(@, check(arg.buf, arg.pos).kind)]
  /\ arg' = [arg EXCEPT !.pos = check(arg.buf, arg.pos).pos]
  /\ UNCHANGED <<pc, frame, buf, base, enc, dec, prev>>

\* Frame::parse(&mut cursor), on the cursor the checks have left.
ParseChecked ==
  /\ pc = "check"
  /\ out' = [out EXCEPT !.parsed = parse(arg.buf, arg.pos)]
  /\ pc' = "done"
  /\ UNCHANGED <<frame, buf, base, enc, dec, prev, arg>>

\* The reader calls decode: on (Some(f), n) it emits f and drops the first n
\* bytes, on (None, 0) it waits for the transport, on an error it stops.
StreamDecode ==
  /\ pc = "stream"
  /\ dec' = [called |-> TRUE, input |-> buf, res |-> decode(buf)]
  /\ pc' = CASE dec'.res.kind = "Some" -> "stream"
             [] dec'.res.kind = "None" -> "starved"
             [] OTHER                  -> "failed"
  /\ buf' = IF dec'.res.kind = "Some" THEN SubSeq(buf, dec'.res.n + 1, Len(buf)) ELSE buf
  /\ out' = IF dec'.res.kind = "Some"
            THEN [out EXCEPT !.emitted = Append(@, dec'.res.frame)] ELSE out
  /\ UNCHANGED <<frame, base, enc, prev, arg>>

\* The transport appends the next chunk, of k bytes, to the reader's buffer.
Deliver(k) ==
  /\ pc = "starved" /\ k <= Len(base)
  /\ buf' = buf \o SubSeq(base, 1, k)
  /\ base' = SubSeq(base, k + 1, Len(base))
  /\ pc' = "stream"
  /\ UNCHANGED <<frame, enc, dec, prev, arg, out>>

Next ==
  \/ Encode
  \/ \E k \in 0..Len(buf) : Truncate(k)
  \/ Decode
  \/ \E p \in Pads : Extend(p)

NextRaw ==
  \/ Decode
  \/ \E p \in Pads : Extend(p)

NextUtil ==
  \/ Keyslot
  \/ Display
  \/ EqStr

NextCheck ==
  \/ Check
  \/ ParseChecked

NextStream ==
  \/ StreamDecode
  \/ \E k \in 1..Len(base) : Deliver(k)

Spec       == Init /\ [][Next]_vars
SpecDecode == InitRaw /\ [][NextRaw]_vars
SpecUtil   == InitUtil /\ [][NextUtil]_vars
SpecCheck  == InitCheck /\ [][NextCheck]_vars
SpecStream == InitStream /\ [][NextStream]_vars
---------------------------------------------------------------------------
(* What the specification states, in the terms of section 6's wire format. *)

IsPrefix(p, s) == Len(p) <= Len(s) /\ SubSeq(s, 1, Len(p)) = p

IsStrictPrefix(p, s) == Len(p) < Len(s) /\ SubSeq(s, 1, Len(p)) = p

\* The text holds a "\r\n" pair.
HasCrlf(s) == \E i \in 1..(Len(s) - 1) : s[i] = 13 /\ s[i + 1] = 10

\* A frame whose encoding is a valid frame encoding: the text of a
\* SimpleString or an Error holds no line terminator, at any depth.
RECURSIVE LineSafe(_)
LineSafe(f) ==
  CASE f.type \in {"SimpleString", "Error"} -> ~HasCrlf(f.str)
    [] f.type = "Array" -> \A i \in 1..Len(f.items) : LineSafe(f.items[i])
    [] OTHER -> TRUE

IsNested(f) == f.type = "Array" /\ \E i \in 1..Len(f.items) : f.items[i].type = "Array"

\* '<KIND> <slot> <host>:<port>'
WireRedirection(kind, f) ==
  kind \o <<32>> \o FmtNat(f.slot) \o <<32>> \o f.host \o <<58>> \o FmtNat(f.port)

\* The wire bytes of a frame.
RECURSIVE Wire(_)
RECURSIVE WireAll(_, _)
WireAll(items, i) ==
  IF i > Len(items) THEN <<>> ELSE Wire(items[i]) \o WireAll(items, i + 1)

Wire(f) ==
  CASE f.type = "SimpleString" -> <<43>> \o f.str \o CRLF
    [] f.type = "Error"        -> <<45>> \o f.str \o CRLF
    [] f.type = "Integer"      -> <<58>> \o FmtI64(f.num) \o CRLF
    [] f.type = "BulkString"   -> <<36>> \o FmtNat(Len(f.data)) \o CRLF \o f.data \o CRLF
    [] f.type = "Null"         -> <<36, 45, 49, 13, 10>>
    [] f.type = "Array"        -> <<42>> \o FmtNat(Len(f.items)) \o CRLF \o WireAll(f.items, 1)
    [] f.type = "Moved"        -> <<45>> \o WireRedirection(STR_MOVED, f) \o CRLF
    [] f.type = "Ask"          -> <<45>> \o WireRedirection(STR_ASK, f) \o CRLF

TagBytes == {SIMPLESTRING_BYTE, ERROR_BYTE, INTEGER_BYTE, BULKSTRING_BYTE, ARRAY_BYTE}

\* The buffer's leading byte, or the leading byte of the child of a
\* one-element array, is no tag byte.
UnknownTagReached(b) ==
  \E h \in {<<>>, <<42, 49, 13, 10>>} :
    IsPrefix(h, b) /\ Len(b) > Len(h) /\ b[Len(h) + 1] \notin TagBytes

\* The least i in from..Len(s) with s[i] = c, or 0.
RECURSIVE IndexFrom(_, _, _)
IndexFrom(s, c, from) ==
  IF from > Len(s) THEN 0
  ELSE IF s[from] = c THEN from
  ELSE IndexFrom(s, c, from + 1)

\* The bytes redis_keyslot is to hash: the hash tag when there is one.
HashRange(key) ==
  LET open  == IndexFrom(key, 123, 1)
      close == IF open = 0 THEN 0 ELSE IndexFrom(key, 125, open + 1)
  IN  IF open = 0 \/ close = 0 \/ close = open + 1 THEN key
      ELSE SubSeq(key, open + 1, close - 1)

\* The rendering of a frame, an array's children separated by one space.
RECURSIVE Rendering(_)
RECURSIVE RenderingFrom(_, _)
RenderingFrom(parts, i) ==
  IF i > Len(parts) THEN <<>>
  ELSE (IF i > 1 THEN <<32>> ELSE <<>>) \o Rendering(parts[i]) \o RenderingFrom(parts, i + 1)

Rendering(f) == IF f.type = "Array" THEN RenderingFrom(f.items, 1) ELSE fmt(f)

\* The frame is one of the string-bearing variants and holds the text s.
HoldsText(f, s) ==
  CASE f.type \in {"SimpleString", "Error"} -> f.str = s
    [] f.type = "BulkString" -> f.data = s
    [] OTHER -> FALSE

---------------------------------------------------------------------------
(* The claims                                                              *)

\* C1: round trip.  A non-nested frame (SimpleString, Error, Integer,
\* BulkString, Null, Moved, Ask) encoded into an empty buffer is encoded
\* successfully, and decoding the buffer returns (Some(frame), n) with n the
\* number of bytes encode produced.
C1_RoundTrip ==
  (enc.called /\ base = <<>> /\ frame.type # "Array") =>
    /\ enc.ok
    /\ (dec.called /\ dec.input = enc.buf) =>
         dec.res = [kind |-> "Some", frame |-> frame, n |-> enc.len]

\* C2: incompleteness.  decode on a strict prefix of a valid frame's
\* encoding, the empty prefix and the prefixes of nested arrays included,
\* returns (None, 0): no frame and no hard error.
C2_TruncatedIsIncomplete ==
  (dec.called /\ enc.ok /\ LineSafe(frame) /\ IsStrictPrefix(dec.input, enc.buf)) =>
    dec.res = [kind |-> "None", frame |-> Null, n |-> 0]

\* C2's case: a nested array cut inside its final terminator has been decoded.
C2_Witness ==
  /\ dec.called /\ enc.ok /\ IsNested(frame) /\ LineSafe(frame)
  /\ dec.input = SubSeq(enc.buf, 1, Len(enc.buf) - 1)
  /\ dec.res.kind = "None"

\* C3: padding.  When decode on b returned (Some(f), n), decode on b followed
\* by more bytes returns the same (Some(f), n).
C3_PaddingInvariant ==
  (prev.called /\ dec.called /\ prev.res.kind = "Some" /\ IsPrefix(prev.input, dec.input)) =>
    dec.res = prev.res

\* C3's case: a buffer that decoded to a frame was extended by a pad that holds
\* a terminator, and decoded again.
C3_Witness ==
  /\ prev.called /\ dec.called /\ prev.res.kind = "Some"
  /\ IsStrictPrefix(prev.input, dec.input)
  /\ prev.res.n = Len(prev.input)
  /\ HasCrlf(SubSeq(dec.input, Len(prev.input) + 1, Len(dec.input)))
  /\ dec.res.n < Len(dec.input)

\* C4: a buffer whose leading byte, or the leading byte of an array child the
\* parse reaches, is none of '+', '-', ':', '$', '*' makes decode return a
\* hard Other error: not Incomplete, and no panic.
C4_UnknownTagIsError ==
  (dec.called /\ UnknownTagReached(dec.input)) => dec.res.kind = "Err"

\* C5: encoding an Ask frame appends exactly "-ASK s h:p\r\n" and encoding a
\* Moved frame appends exactly "-MOVED s h:p\r\n".
C5_RedirectionPrefix ==
  (enc.called /\ frame.type \in {"Moved", "Ask"}) =>
    /\ enc.ok
    /\ enc.buf = base \o <<45>>
                 \o WireRedirection(IF frame.type = "Ask" THEN STR_ASK ELSE STR_MOVED, frame)
                 \o CRLF

\* C6: encode is purely additive.  For every initial content and every frame,
\* the buffer after encode is the initial content followed by the wire bytes
\* of the frame, and the value returned is the buffer's new length.
C6_EncodeAppends ==
  enc.called =>
    /\ enc.ok
    /\ enc.buf = base \o Wire(frame)
    /\ enc.len = Len(base) + Len(Wire(frame))

\* C7: encoding Integer(v) succeeds for every 64-bit v and appends ':', the
\* minimal decimal rendering of v and the terminator.
C7_IntegerAlwaysEncodes ==
  (enc.called /\ frame.type = "Integer") =>
    /\ enc.ok
    /\ enc.buf = base \o <<58>> \o FmtI64(frame.num) \o CRLF

\* C8: redis_keyslot of every key, keys with multi-byte characters before
\* the first '{' included, is the CRC-16/XMODEM of the hash tag (of the
\* whole key when there is no non-empty tag) modulo 16384, a value in
\* 0 .. 16383.
C8_KeyslotHashTag ==
  (out.op = "keyslot") =>
    /\ out.kind = "Ok"
    /\ out.slot = Crc16From(HashRange(arg.key), 1, 0) % REDIS_CLUSTER_SLOTS
    /\ out.slot \in 0..(REDIS_CLUSTER_SLOTS - 1)

\* C9: the Display text of an Array is every child's text, in order, with
\* one space between consecutive children and none before the first or
\* after the last.
C9_ArrayDisplay ==
  (out.op = "fmt" /\ arg.frame.type = "Array") => out.text = Rendering(arg.frame)

\* C10: frame == text is true exactly when the frame is a SimpleString, a
\* BulkString or an Error that holds the text.
C10_StringEquality ==
  (out.op = "eq") => (out.eq <=> HoldsText(arg.frame, arg.other))

\* '$' <len> '\r\n': the length line of a bulk string of len bytes.
BulkHeader(len) == <<36>> \o FmtNat(len) \o CRLF

\* The buffer holds the length line of a bulk string of len bytes and at
\* least len + 2 bytes after it.
BulkAvailable(b, len) ==
  IsPrefix(BulkHeader(len), b) /\ Len(b) >= Len(BulkHeader(len)) + len + 2

\* C11: when a bulk string's length line declares len bytes and at least
\* len + 2 bytes follow it, decode returns the BulkString of the len bytes if
\* the two bytes after them are "\r\n", and a hard error and no frame if they
\* are any other two bytes.
C11_BulkTerminatorRequired ==
  \A len \in 0..3 :
    (dec.called /\ BulkAvailable(dec.input, len)) =>
      LET from == Len(BulkHeader(len))
      IN  IF SubSeq(dec.input, from + len + 1, from + len + 2) = CRLF
          THEN dec.res = [kind |-> "Some",
                          frame |-> BulkString(SubSeq(dec.input, from + 1, from + len)),
                          n |-> from + len + 2]
          ELSE dec.res.kind = "Err"

\* The bytes of s before its first "\r\n"; s holds one.
FirstLine(s) ==
  LET at == CHOOSE i \in 1..(Len(s) - 1) :
              /\ s[i] = 13 /\ s[i + 1] = 10
              /\ \A k \in 1..(i - 1) : ~(s[k] = 13 /\ s[k + 1] = 10)
  IN  SubSeq(s, 1, at - 1)

\* One or more ASCII digits, after one '-' when a sign is allowed.
StrictDecimal(line, signed) ==
  LET digits == IF signed /\ Len(line) > 0 /\ line[1] = 45 THEN Tail(line) ELSE line
  IN  Len(digits) > 0 /\ \A i \in 1..Len(digits) : IsDigit(digits[i])

\* C12: decimal lines are parsed strictly.  When the terminated line of an
\* integer frame, a bulk-string length or an array count is not all ASCII
\* digits (after one optional '-', for an integer only; "$-1" is Null),
\* decode returns a hard Other error: digits followed by other bytes, or a
\* leading '+', never yield a frame.
C12_StrictDecimalLines ==
  (dec.called /\ Len(dec.input) > 0 /\ dec.input[1] \in {58, 36, 42}
     /\ HasCrlf(Tail(dec.input))) =>
    LET line == FirstLine(Tail(dec.input))
    IN  (~StrictDecimal(line, dec.input[1] = 58) /\ ~(dec.input[1] = 36 /\ line = <<45, 49>>))
          => dec.res.kind = "Err"

\* Every redirection in the frame, at any depth, names a cluster slot.
RECURSIVE SlotsInRange(_)
SlotsInRange(f) ==
  CASE f.type \in {"Moved", "Ask"} -> f.slot \in 0..16383
    [] f.type = "Array" -> \A i \in 1..Len(f.items) : SlotsInRange(f.items[i])
    [] OTHER -> TRUE

\* C13: every Moved or Ask frame that decode returns has a slot in
\* 0 .. 16383: an error line 'MOVED slot host:port' or 'ASK slot host:port'
\* with a larger slot is not returned as a redirection with that slot.
C13_RedirectionSlotInRange ==
  (dec.called /\ dec.res.kind = "Some") => SlotsInRange(dec.res.frame)

\* C14: Frame::check is side-effect-free and idempotent.  After check
\* returns, with success, Incomplete or a hard error, the cursor is where it
\* was before the call; a second check gives the result of the first, and a
\* parse that follows starts at the same frame.
C14_CheckLeavesCursor ==
  (out.op = "check" /\ Len(out.results) > 0) =>
    /\ arg.pos = 0
    /\ Len(out.results) = 2 => out.results[1] = out.results[2]
    /\ pc = "done" => out.parsed = parse(arg.buf, 0)

\* C15: streaming decode.  The encodings of frames f1..fk are delivered in
\* arbitrary chunks to a reader that repeats: call decode; on (Some(f), n)
\* emit f and drop n bytes; on (None, 0) append the next chunk.  The reader
\* never gets a hard error, emits f1..fk in order, and when every chunk has
\* arrived and decode asks for more it has emitted all of them and its buffer
\* is empty.
C15_StreamingDecode ==
  (out.op = "stream") =>
    /\ pc # "failed"
    /\ IsPrefix(out.emitted, frame)
    /\ (pc = "starved" /\ base = <<>>) => (out.emitted = frame /\ buf = <<>>)

\* s without a final '\r', the first half of a terminator still to come.
DropCr(s) == IF Len(s) > 0 /\ s[Len(s)] = 13 THEN SubSeq(s, 1, Len(s) - 1) ELSE s

\* The bytes can be continued to a decimal line: digits only, after one '-'
\* when a sign is allowed.
DecimalPrefix(s, signed) ==
  LET digits == IF signed /\ Len(s) > 0 /\ s[1] = 45 THEN Tail(s) ELSE s
  IN  \A i \in 1..Len(digits) : IsDigit(digits[i])

\* A buffer no appended bytes complete into a valid frame: the unterminated
\* line of an integer, a bulk length or an array count already holds a byte
\* that no decimal line (and, after '$', no "-1") holds.
NeverCompletes(b) ==
  /\ Len(b) > 0 /\ b[1] \in {58, 36, 42}
  /\ ~HasCrlf(Tail(b))
  /\ ~DecimalPrefix(DropCr(Tail(b)), b[1] = 58)
  /\ ~(b[1] = 36 /\ DropCr(Tail(b)) \in {<<45>>, <<45, 49>>})

\* C16: decode returns (None, 0) only for a prefix of a valid frame
\* encoding.  For a buffer that no appended bytes can complete, such as an
\* unterminated integer or length line that already holds a non-digit byte,
\* it returns a hard Other error, not Incomplete.
C16_IncompleteOnlyForPrefixes ==
  (dec.called /\ NeverCompletes(dec.input)) => dec.res.kind = "Err"

===========================================================================
